---- MODULE Spec2Model ----
(***************************************************************************)
(* Model of task-tracker (cmd/task-tracker/main.go): the start command's   *)
(* capture goroutine and interrupt path, StopCapture/saveMetadata, the     *)
(* monitor selection of setupMonitors and the even sampling of             *)
(* sampleScreenshots.                                                      *)
(***************************************************************************)
EXTENDS Integers, Sequences, FiniteSets, TLC

VARIABLES
    MonitorsConfig,     \* TaskTracker.MonitorsConfig, a sequence of characters
    numMonitors,        \* screenshot.NumActiveDisplays()
    CaptureInterval,    \* TaskTracker.CaptureInterval, in seconds
    MonitorsToCapture,  \* TaskTracker.MonitorsToCapture, 0-based indices
    warnings,           \* the warnings setupMonitors has printed
    IsCapturing,        \* TaskTracker.IsCapturing
    StartTime,          \* TaskTracker.StartTime
    EndTime,            \* TaskTracker.EndTime
    Screenshots,        \* TaskTracker.Screenshots
    now,                \* the wall clock, in seconds
    nextTick,           \* time of the ticker's next tick, NoTicker when none
    tickC,              \* ticker.C, a channel of capacity 1 (number buffered)
    sigChan,            \* sigChan, a channel of capacity 1 (number buffered)
    sigCount,           \* interrupts delivered to the process so far
    done,               \* done, a channel of capacity 1 (number buffered)
    pcMain,             \* position of the start command's Run function
    pcCap,              \* position of the goroutine running StartCapture
    capIdx,             \* captureScreenshot: position in MonitorsToCapture
    capTs,              \* captureScreenshot: timestamp
    metadata,           \* saveMetadata: the SessionMetadata being built
    metadataLog,        \* every content written to metadata.json, in order
    review,             \* every content written to the review file, in order
    ticks,              \* per capture tick, the outcome of each monitor tried
    flightTick,         \* the capture tick in flight at the first interrupt, or 0
    lag,                \* clock steps that passed while a step was pending
    stops,              \* completed calls of StopCapture: EndTime of each
    sampleCount,        \* argument of sampleScreenshots
    selected,           \* result of sampleScreenshots
    StartFrac,          \* TaskTracker.StartTime: tenths of a second past it
    EndFrac,            \* TaskTracker.EndTime: tenths of a second past it
    file,               \* metadata.json as it is on disk
    pcLoad,             \* position of the analyze command's Run function
    loadData,           \* analyze: what os.ReadFile returned
    loaded              \* analyze: the tracker reconstructed from the file

vars == <<MonitorsConfig, numMonitors, CaptureInterval, MonitorsToCapture,
          warnings, IsCapturing, StartTime, EndTime, Screenshots, now, nextTick, tickC,
          sigChan, sigCount, done, pcMain, pcCap, capIdx, capTs,
          metadata, metadataLog, review, ticks, flightTick, lag, stops,
          sampleCount,
          selected, StartFrac, EndFrac, file, pcLoad, loadData, loaded>>

configVars == <<MonitorsConfig, numMonitors, CaptureInterval, MonitorsToCapture,
                warnings>>
sampleVars == <<sampleCount, selected>>
loadVars == <<StartFrac, EndFrac, pcLoad, loadData, loaded>>

----------------------------------------------------------------------------
(* Bounds of the model. *)

MaxTime == 66          \* the clock stops here
MaxSignals == 1        \* interrupts the environment delivers
MaxLag == 1            \* clock steps that may pass while a step is pending
MaxStops == 2          \* calls of StopCapture by a caller of the API
MaxLen == 16           \* records of a sampled session
MaxCount == 12         \* largest sample count
MaxDisplays == 3       \* active displays of a resolved configuration
MaxParts == 2          \* comma-separated parts of a monitor specification
MaxSession == 6        \* seconds a saved session lasted

(* Go values. *)

ZeroTime == 0          \* the zero time.Time of an unset StartTime/EndTime
NoTicker == 0 - 1      \* no ticker is running
NoFile == <<>>         \* metadata.json or the review has not been written

\* the zero SessionMetadata
ZeroMetadata ==
    [start_time |-> ZeroTime, end_time |-> ZeroTime,
     duration_seconds |-> 0, duration_tenths |-> 0, screenshot_count |-> 0,
     screenshots |-> <<>>]

\* metadata.json does not exist; when it exists, data holds its tokens, and
\* damaged tells that something other than the program has changed it
Missing == [exists |-> FALSE, damaged |-> FALSE, data |-> <<>>]

\* the tracker of the analyze command before it is reconstructed
NoTracker ==
    [StartTime |-> ZeroTime, StartFrac |-> 0, EndTime |-> ZeroTime,
     EndFrac |-> 0, Screenshots |-> <<>>]
\* sampleScreenshots has not run, has returned shots, or has panicked
NoResult == [state |-> "none", shots |-> <<>>]
Returned(shots) == [state |-> "ok", shots |-> shots]
Panic == [state |-> "panic", shots |-> <<>>]

DefaultInterval == 30

\* the time at which the start command runs
ProcessStart == ZeroTime + 1
ReviewSampleCount == 5

\* Duration.Seconds() of a.Sub(b).  The difference to the zero time does not
\* fit a Duration and saturates at the maximum Duration.
MaxDuration == 2147483647

Sub(a, b) ==
    IF a = b THEN 0
    ELSE IF b = ZeroTime THEN MaxDuration
    ELSE IF a = ZeroTime THEN 0 - MaxDuration
    ELSE a - b

Since(t) == Sub(now, t)

----------------------------------------------------------------------------
(* setupMonitors: the monitor specification, a sequence of characters, is   *)
(* resolved against the number of active displays.                          *)

Digits == {"0", "1", "2", "3", "4", "5", "6", "7", "8", "9"}

DigitVal(c) ==
    CASE c = "0" -> 0 [] c = "1" -> 1 [] c = "2" -> 2 [] c = "3" -> 3
      [] c = "4" -> 4 [] c = "5" -> 5 [] c = "6" -> 6 [] c = "7" -> 7
      [] c = "8" -> 8 [] c = "9" -> 9

\* strings.Split(s, ","): the parts between the commas, empty parts included
RECURSIVE Split(_)
Split(s) ==
    IF \A i \in 1..Len(s) : s[i] # ","
    THEN <<s>>
    ELSE LET i == CHOOSE j \in 1..Len(s) :
                      s[j] = "," /\ \A h \in 1..(j - 1) : s[h] # ","
         IN  <<SubSeq(s, 1, i - 1)>> \o Split(SubSeq(s, i + 1, Len(s)))

\* strings.TrimSpace(s): leading and trailing white space is removed
WhiteSpace == {" ", "\t", "\n", "\r"}

RECURSIVE TrimSpace(_)
TrimSpace(s) ==
    IF s = <<>> THEN s
    ELSE IF Head(s) \in WhiteSpace THEN TrimSpace(Tail(s))
    ELSE IF s[Len(s)] \in WhiteSpace THEN TrimSpace(SubSeq(s, 1, Len(s) - 1))
    ELSE s

RECURSIVE DecimalValue(_)
DecimalValue(s) ==
    IF s = <<>> THEN 0
    ELSE 10 * DecimalValue(SubSeq(s, 1, Len(s) - 1)) + DigitVal(s[Len(s)])

\* strconv.Atoi(s): [ok, num]; an optional sign, then one or more digits
Atoi(s) ==
    LET signed == s # <<>> /\ Head(s) \in {"+", "-"}
        body == IF signed THEN Tail(s) ELSE s
    IN  IF body # <<>> /\ \A i \in 1..Len(body) : body[i] \in Digits
        THEN [ok |-> TRUE,
              num |-> IF signed /\ Head(s) = "-"
                      THEN 0 - DecimalValue(body) ELSE DecimalValue(body)]
        ELSE [ok |-> FALSE, num |-> 0]

\* ParseList giving up at the first part that names no display
RECURSIVE ParseList_StopsAtInvalid(_, _)
ParseList_StopsAtInvalid(parts, n) ==
    IF parts = <<>> THEN <<>>
    ELSE LET r == Atoi(TrimSpace(Head(parts)))
         IN  IF r.ok /\ r.num >= 1 /\ r.num <= n
             THEN <<r.num - 1>> \o ParseList_StopsAtInvalid(Tail(parts), n)
             ELSE <<>>

\* ParseList taking the numbers as 0-based: 0 is accepted and the number
\* is the index
RECURSIVE ParseList_ZeroBased(_, _)
ParseList_ZeroBased(parts, n) ==
    IF parts = <<>> THEN <<>>
    ELSE LET r == Atoi(TrimSpace(Head(parts)))
         IN  (IF r.ok /\ r.num >= 0 /\ r.num <= n THEN <<r.num>> ELSE <<>>)
             \o ParseList_ZeroBased(Tail(parts), n)

\* the parts of the comma-separated list that name a display, 0-indexed
RECURSIVE ParseList(_, _)
ParseList(parts, n) ==
    IF parts = <<>> THEN <<>>
    ELSE LET r == Atoi(TrimSpace(Head(parts)))
         IN  (IF r.ok /\ r.num >= 1 /\ r.num <= n THEN <<r.num - 1>> ELSE <<>>)
             \o ParseList(Tail(parts), n)

All == <<"a", "l", "l">>
Primary == <<"p", "r", "i", "m", "a", "r", "y">>

\* setupMonitors without the fallback to the primary display
setupMonitors_NoFallback(config, n) ==
    IF config = All THEN [i \in 1..n |-> i - 1]
    ELSE IF config = Primary THEN <<0>>
    ELSE ParseList(Split(config), n)

\* setupMonitors with "all" leaving out the last display
setupMonitors_AllButLast(config, n) ==
    IF config = All THEN [i \in 1..(n - 1) |-> i - 1]
    ELSE IF config = Primary THEN <<0>>
    ELSE LET list == ParseList(Split(config), n)
         IN  IF Len(list) = 0 THEN <<0>> ELSE list

\* setupMonitors with "primary" taken as the last display
setupMonitors_PrimaryLast(config, n) ==
    IF config = All THEN [i \in 1..n |-> i - 1]
    ELSE IF config = Primary THEN <<n - 1>>
    ELSE LET list == ParseList(Split(config), n)
         IN  IF Len(list) = 0 THEN <<0>> ELSE list

setupMonitors(config, n) ==
    IF config = All THEN [i \in 1..n |-> i - 1]
    ELSE IF config = Primary THEN <<0>>
    ELSE LET list == ParseList(Split(config), n)
         IN  IF Len(list) = 0 THEN <<0>> ELSE list

\* the warning setupMonitors prints when no part of the list names a display
InvalidConfigWarning == "Invalid monitor config, defaulting to primary"

setupMonitorsWarnings(config, n) ==
    IF config \notin {All, Primary} /\ Len(ParseList(Split(config), n)) = 0
    THEN <<InvalidConfigWarning>>
    ELSE <<>>

\* screenshot.GetDisplayBounds / img.Bounds(): the resolution of a display
Resolution(monitorIdx) == <<1920 + 640 * monitorIdx, 1080 + 360 * monitorIdx>>

----------------------------------------------------------------------------
(* float64 arithmetic of sampleScreenshots.  A finite value >= 1 is held    *)
(* exactly as [int, frac]: its integer part and the bits after the binary   *)
(* point.  A float64 keeps 53 significant bits and rounds to nearest, ties  *)
(* to even.                                                                 *)

Precision == 53

RECURSIVE BitLen(_)
BitLen(x) == IF x = 0 THEN 0 ELSE 1 + BitLen(x \div 2)

RECURSIVE Pow2(_)
Pow2(e) == IF e = 0 THEN 1 ELSE 2 * Pow2(e - 1)

\* the c binary digits of v < 2^c, most significant first, and back
ToBits(v, c) == [j \in 1..c |-> (v \div Pow2(c - j)) % 2]

RECURSIVE FromBits(_)
FromBits(bits) ==
    IF bits = <<>> THEN 0
    ELSE 2 * FromBits(SubSeq(bits, 1, Len(bits) - 1)) + bits[Len(bits)]

\* the first count bits of the binary expansion of rem/d (rem < d) and what
\* remains, by long division, eight bits at a step
RECURSIVE DivBits(_, _, _)
DivBits(rem, d, count) ==
    IF count = 0 THEN [bits |-> <<>>, rem |-> rem]
    ELSE LET c == IF count < 8 THEN count ELSE 8
             t == rem * Pow2(c)
             rest == DivBits(t % d, d, count - c)
         IN  [bits |-> ToBits(t \div d, c) \o rest.bits, rem |-> rest.rem]

\* one unit in the last place is added
Increment(x) ==
    LET zeros == {j \in 1..Len(x.frac) : x.frac[j] = 0}
    IN  IF zeros = {}
        THEN [int |-> x.int + 1, frac |-> [j \in 1..Len(x.frac) |-> 0]]
        ELSE LET p == CHOOSE j \in zeros : \A h \in zeros : h <= j
             IN  [int |-> x.int,
                  frac |-> [j \in 1..Len(x.frac) |->
                               IF j < p THEN x.frac[j]
                               ELSE IF j = p THEN 1 ELSE 0]]

LastBitOdd(x) ==
    IF x.frac = <<>> THEN x.int % 2 = 1 ELSE x.frac[Len(x.frac)] = 1

\* float64(m) / float64(d) for integers m >= d >= 1
FloatDiv(m, d) ==
    LET q == m \div d
        f == Precision - BitLen(q)
        r == DivBits(m % d, d, f)
        x == [int |-> q, frac |-> r.bits]
    IN  IF 2 * r.rem > d \/ (2 * r.rem = d /\ LastBitOdd(x))
        THEN Increment(x) ELSE x

\* the bits of i * 0.frac with the carry out, eight bits at a step from the
\* least significant end
RECURSIVE MulBits(_, _, _)
MulBits(i, frac, carry) ==
    IF frac = <<>> THEN [bits |-> <<>>, carry |-> carry]
    ELSE LET f == Len(frac)
             c == IF f < 8 THEN f ELSE 8
             t == i * FromBits(SubSeq(frac, f - c + 1, f)) + carry
             rest == MulBits(i, SubSeq(frac, 1, f - c), t \div Pow2(c))
         IN  [bits |-> rest.bits \o ToBits(t % Pow2(c), c),
              carry |-> rest.carry]

\* float64(i) * x for an integer i >= 1
FloatMul(i, x) ==
    LET m == MulBits(i, x.frac, 0)
        p == i * x.int + m.carry
        g == Precision - BitLen(p)
        f == Len(m.bits)
        kept == [int |-> p, frac |-> SubSeq(m.bits, 1, g)]
        dropped == SubSeq(m.bits, g + 1, f)
        half == dropped # <<>> /\ dropped[1] = 1
        above == half /\ \E j \in 2..Len(dropped) : dropped[j] = 1
    IN  IF above \/ (half /\ ~above /\ LastBitOdd(kept))
        THEN Increment(kept) ELSE kept

\* int(x): the conversion truncates
FloatToInt(x) == x.int

\* int(NaN) depends on the build: 0 on arm64, the most negative int on amd64;
\* any index below zero stands for the latter
NaNIndexes == {0, 0 - 1}

\* SampleIndex with the step taken the wrong way round, (count-1)/(n-1)
SampleIndex_InvertedStep(n, count, i, nanIdx) ==
    IF count = 1 THEN nanIdx
    ELSE IF i = 0 THEN 0
    ELSE (i * (count - 1)) \div (n - 1)

\* idx of iteration i: int(float64(i) * step), step = float64(n-1)/float64(count-1)
SampleIndex(n, count, i, nanIdx) ==
    IF count = 1 THEN nanIdx
    ELSE IF i = 0 THEN 0
    ELSE FloatToInt(FloatMul(i, FloatDiv(n - 1, count - 1)))

\* sampleScreenshots returning every record only when there are fewer than
\* count of them
sampleScreenshots_StrictlyFewer(shots, count, nanIdx) ==
    LET n == Len(shots)
        idx(i) == SampleIndex(n, count, i, nanIdx)
    IN  IF n < count THEN Returned(shots)
        ELSE IF \E i \in 0..(count - 1) : idx(i) < 0 \/ idx(i) >= n THEN Panic
        ELSE Returned([i \in 1..count |-> shots[idx(i - 1) + 1]])

sampleScreenshots(shots, count, nanIdx) ==
    LET n == Len(shots)
        idx(i) == SampleIndex(n, count, i, nanIdx)
    IN  IF n <= count THEN Returned(shots)
        ELSE IF \E i \in 0..(count - 1) : idx(i) < 0 \/ idx(i) >= n THEN Panic
        ELSE Returned([i \in 1..count |-> shots[idx(i - 1) + 1]])

----------------------------------------------------------------------------
(* Durations of the review: t.EndTime.Sub(t.StartTime).Minutes() printed    *)
(* with %.1f.  A time.Time is held as its seconds and the tenths of a       *)
(* second past them; a Duration is counted in tenths of a second.           *)

TenthsPerSecond == 10
MinuteTenths == 60 * TenthsPerSecond

\* end.Sub(start): the saturated Duration stays as it is
Elapsed(endT, endF, startT, startF) ==
    LET s == Sub(endT, startT)
    IN  IF s = MaxDuration \/ s = 0 - MaxDuration THEN s
        ELSE s * TenthsPerSecond + endF - startF

\* float64(m) / float64(d) for integers 1 <= m < d: the quotient of m * 2^e
\* by d, in [1, 2), moved e places to the right
FloatDivFraction(m, d) ==
    LET e == CHOOSE k \in 1..BitLen(d) :
                 m * Pow2(k) >= d /\ m * Pow2(k - 1) < d
        y == FloatDiv(m * Pow2(e), d)
    IN  [int |-> 0, frac |-> [j \in 1..(e - 1) |-> 0] \o <<1>> \o y.frac]

\* float64(min) + x for an integer min >= 1 and a float64 0 < x < 1
FloatAdd(min, x) ==
    LET g == Precision - BitLen(min)
        kept == [int |-> min, frac |-> SubSeq(x.frac, 1, g)]
        dropped == SubSeq(x.frac, g + 1, Len(x.frac))
        half == dropped # <<>> /\ dropped[1] = 1
        above == half /\ \E j \in 2..Len(dropped) : dropped[j] = 1
    IN  IF above \/ (half /\ ~above /\ LastBitOdd(kept))
        THEN Increment(kept) ELSE kept

\* Duration.Minutes() of d >= 0 tenths of a second:
\* float64(d / Minute) + float64(d % Minute)/(60*1e9)
Minutes(d) ==
    LET min == d \div MinuteTenths
        nsec == d % MinuteTenths
    IN  IF nsec = 0 THEN [int |-> min, frac |-> <<>>]
        ELSE IF min = 0 THEN FloatDivFraction(nsec, MinuteTenths)
        ELSE FloatAdd(min, FloatDivFraction(nsec, MinuteTenths))

\* %.1f of a float64 x >= 0: the number of tenths printed, the exact value
\* of x rounded to the nearest tenth, ties to even
FormatTenth(x) ==
    LET m == MulBits(10, x.frac, 0)
        base == 10 * x.int + m.carry
        half == m.bits # <<>> /\ m.bits[1] = 1
        above == half /\ \E j \in 2..Len(m.bits) : m.bits[j] = 1
    IN  IF above \/ (half /\ ~above /\ base % 2 = 1) THEN base + 1 ELSE base

\* the "%.1f minutes" of a Duration: its sign and the tenths of a minute
\* printed; the saturated Duration prints as the largest value
\* what %.1f prints for the minutes of each Duration a session can last
MinutesPrinted ==
    [d \in 0..(MaxTime * TenthsPerSecond) |-> FormatTenth(Minutes(d))]

FormatMinutes(d) ==
    LET abs == IF d < 0 THEN 0 - d ELSE d
    IN  [neg |-> d < 0,
         tenths |-> IF abs = MaxDuration THEN MaxDuration
                    ELSE IF abs \in DOMAIN MinutesPrinted
                         THEN MinutesPrinted[abs]
                    ELSE FormatTenth(Minutes(abs))]

----------------------------------------------------------------------------
(* encoding/json.  metadata.json is held as the sequence of its tokens:     *)
(* braces and brackets, keys, strings and numbers.  The text of a string    *)
(* or number is the sequence of its pieces, each a sequence of characters:  *)
(* a number of the program becomes its decimal numeral.                     *)

DigitChar(d) ==
    CASE d = 0 -> "0" [] d = 1 -> "1" [] d = 2 -> "2" [] d = 3 -> "3"
      [] d = 4 -> "4" [] d = 5 -> "5" [] d = 6 -> "6" [] d = 7 -> "7"
      [] d = 8 -> "8" [] d = 9 -> "9"

\* strconv.Itoa(n)
RECURSIVE Itoa(_)
Itoa(n) ==
    IF n < 0 THEN <<"-">> \o Itoa(0 - n)
    ELSE IF n < 10 THEN <<DigitChar(n)>>
    ELSE Itoa(n \div 10) \o <<DigitChar(n % 10)>>

\* the characters a JSON string writes with a backslash before them
Escaped == {"\"", "\\"}

RECURSIVE EscapeString(_)
EscapeString(chars) ==
    IF chars = <<>> THEN <<>>
    ELSE (IF Head(chars) \in Escaped THEN <<"\\", Head(chars)>>
          ELSE <<Head(chars)>>) \o EscapeString(Tail(chars))

RECURSIVE UnescapeString(_)
UnescapeString(chars) ==
    IF chars = <<>> THEN <<>>
    ELSE IF Head(chars) = "\\" /\ Len(chars) > 1
    THEN <<chars[2]>> \o UnescapeString(SubSeq(chars, 3, Len(chars)))
    ELSE <<Head(chars)>> \o UnescapeString(Tail(chars))

Punct(c) == [kind |-> c, text |-> <<>>]
Key(name) == [kind |-> "key", text |-> <<<<name>>>>]
String(pieces) == [kind |-> "string", text |-> pieces]
Number(ints) == [kind |-> "number", text |-> [i \in 1..Len(ints) |-> Itoa(ints[i])]]

\* the value of a JSON number token: [ok, ints]
ParseNumber(token) ==
    [ok |-> /\ token.kind = "number"
            /\ \A i \in 1..Len(token.text) : Atoi(token.text[i]).ok,
     ints |-> [i \in 1..Len(token.text) |-> Atoi(token.text[i]).num]]

\* a file name: the literal text of its format, then its numbers
EncodePath(path) ==
    <<EscapeString(<<path[1]>>)>>
        \o [i \in 1..(Len(path) - 1) |-> Itoa(path[i + 1])]

DecodePath(text) ==
    UnescapeString(text[1])
        \o [i \in 1..(Len(text) - 1) |-> Atoi(text[i + 1]).num]

\* Time.Format(time.RFC3339): the seconds, without the fraction of a second
FormatRFC3339(t, frac) == t

\* time.Parse(time.RFC3339, s) of the text of a string: [ok, t, frac]
ParseRFC3339(text) ==
    IF Len(text) = 1 /\ Atoi(text[1]).ok
    THEN [ok |-> TRUE, t |-> Atoi(text[1]).num, frac |-> 0]
    ELSE [ok |-> FALSE, t |-> ZeroTime, frac |-> 0]

MarshalScreenshot(shot) ==
    << Punct("{"),
       Key("path"), String(EncodePath(shot.path)),
       Key("monitor"), Number(<<shot.monitor>>),
       Key("timestamp"), String(<<Itoa(shot.timestamp)>>),
       Key("relative_time"), Number(<<shot.relative_time>>),
       Key("resolution"), String(<<Itoa(shot.resolution[1]),
                                   Itoa(shot.resolution[2])>>),
       Punct("}") >>

RECURSIVE MarshalScreenshots(_)
MarshalScreenshots(shots) ==
    IF shots = <<>> THEN <<>>
    ELSE MarshalScreenshot(Head(shots)) \o MarshalScreenshots(Tail(shots))

\* json.MarshalIndent(metadata, "", "  ")
Marshal(md) ==
    << Punct("{"),
       Key("start_time"), String(<<Itoa(md.start_time)>>),
       Key("end_time"), String(<<Itoa(md.end_time)>>),
       Key("duration_seconds"),
       Number(<<md.duration_seconds, md.duration_tenths>>),
       Key("screenshot_count"), Number(<<md.screenshot_count>>),
       Key("screenshots"), Punct("[") >>
        \o MarshalScreenshots(md.screenshots)
        \o << Punct("]"), Punct("}") >>

HeaderTokens == 11
ScreenshotTokens == 12
TrailerTokens == 2

\* the tokens are those of an object with these keys in this order
SameShape(data, layout) ==
    /\ Len(data) = Len(layout)
    /\ \A i \in 1..Len(data) :
          /\ data[i].kind = layout[i].kind
          /\ data[i].kind = "key" => data[i].text = layout[i].text

\* UnmarshalScreenshot leaving RelativeTime at its zero value
UnmarshalScreenshot_NoRelativeTime(tokens) ==
    [path |-> DecodePath(tokens[3].text),
     monitor |-> ParseNumber(tokens[5]).ints[1],
     timestamp |-> Atoi(tokens[7].text[1]).num,
     relative_time |-> 0,
     resolution |-> <<Atoi(tokens[11].text[1]).num,
                      Atoi(tokens[11].text[2]).num>>]

\* the Screenshot of the tokens of one element of "screenshots"
UnmarshalScreenshot(tokens) ==
    [path |-> DecodePath(tokens[3].text),
     monitor |-> ParseNumber(tokens[5]).ints[1],
     timestamp |-> Atoi(tokens[7].text[1]).num,
     relative_time |-> ParseNumber(tokens[9]).ints[1],
     resolution |-> <<Atoi(tokens[11].text[1]).num,
                      Atoi(tokens[11].text[2]).num>>]

\* json.Unmarshal(data, &metadata): [ok, start_time, end_time, screenshots];
\* the times are the texts of their strings.  Data that is no complete
\* object of the SessionMetadata layout, or holds a number that is none, is
\* an error.
Unmarshal(data) ==
    LET fixed == HeaderTokens + TrailerTokens
        n == (Len(data) - fixed) \div ScreenshotTokens
        layout == Marshal([ZeroMetadata EXCEPT
                              !.screenshots = [i \in 1..n |->
                                  [path |-> <<"">>, monitor |-> 0,
                                   timestamp |-> 0, relative_time |-> 0,
                                   resolution |-> <<0, 0>>]]])
        element(i) == SubSeq(data,
                             HeaderTokens + (i - 1) * ScreenshotTokens + 1,
                             HeaderTokens + i * ScreenshotTokens)
        ok == /\ Len(data) >= fixed
              /\ SameShape(data, layout)
              /\ \A i \in 1..Len(data) :
                    data[i].kind = "number" => ParseNumber(data[i]).ok
    IN  IF ok
        THEN [ok |-> TRUE,
              start_time |-> data[3].text,
              end_time |-> data[5].text,
              screenshots |-> [i \in 1..n |-> UnmarshalScreenshot(element(i))]]
        ELSE [ok |-> FALSE, start_time |-> <<>>, end_time |-> <<>>,
              screenshots |-> <<>>]

----------------------------------------------------------------------------
(* The start command: NewTaskTracker, signal.Notify and the go statement    *)
(* have run; the Run function is at its select, the goroutine has not yet   *)
(* entered StartCapture.                                                    *)

Scenarios ==
    { [config |-> Primary, displays |-> 2],
      [config |-> <<"1", ",", "2">>, displays |-> 2],
      [config |-> All, displays |-> 1] }

NewTaskTracker(sc) ==
    /\ MonitorsConfig = sc.config
    /\ numMonitors = sc.displays
    /\ CaptureInterval = DefaultInterval
    /\ MonitorsToCapture = setupMonitors(sc.config, sc.displays)
    /\ warnings = setupMonitorsWarnings(sc.config, sc.displays)
    /\ IsCapturing = FALSE
    /\ StartTime = ZeroTime
    /\ EndTime = ZeroTime
    /\ Screenshots = <<>>

Init ==
    /\ \E sc \in Scenarios : NewTaskTracker(sc)
    /\ now = ProcessStart
    /\ nextTick = NoTicker
    /\ tickC = 0
    /\ sigChan = 0
    /\ sigCount = 0
    /\ done = 0
    /\ pcMain = "select"
    /\ pcCap = "go"
    /\ capIdx = 0
    /\ capTs = ZeroTime
    /\ metadata = ZeroMetadata
    /\ metadataLog = <<>>
    /\ review = NoFile
    /\ ticks = <<>>
    /\ flightTick = 0
    /\ lag = 0
    /\ stops = <<>>
    /\ sampleCount = ReviewSampleCount
    /\ selected = NoResult
    /\ StartFrac = 0
    /\ EndFrac = 0
    /\ file = Missing
    /\ pcLoad = "idle"
    /\ loadData = Missing
    /\ loaded = NoTracker

\* the process is alive: the Run function has neither returned nor exited
Running == pcMain \notin {"returned", "exit1"}

\* a step of the program is pending: the goroutine is not blocked on an empty
\* ticker channel, or the Run function is not blocked on its select
Pending ==
    \/ pcCap \notin {"wait", "returned"}
    \/ pcCap = "wait" /\ tickC = 1
    \/ pcMain # "select"
    \/ sigChan = 1
    \/ done = 1

\* the clock is read every TimeStep seconds
TimeStep == DefaultInterval \div 6

\* the clock advances; a running ticker whose time has come sends on its
\* channel, and drops the tick when the channel is full
Advance ==
    /\ Running
    /\ now + TimeStep <= MaxTime
    /\ Pending => lag < MaxLag
    /\ now' = now + TimeStep
    /\ IF nextTick = now + TimeStep
       THEN /\ tickC' = 1
            /\ nextTick' = nextTick + CaptureInterval
       ELSE UNCHANGED <<tickC, nextTick>>
    /\ lag' = IF Pending THEN lag + 1 ELSE lag
    /\ UNCHANGED <<configVars, file, IsCapturing, StartTime, EndTime, Screenshots,
                   sigChan, sigCount, done, pcMain, pcCap, capIdx,
                   capTs, metadata, metadataLog, review, ticks, flightTick,
                   stops, sampleVars, loadVars>>

\* SIGINT or SIGTERM is delivered: signal.Notify sends without blocking
Interrupt ==
    /\ Running
    /\ sigCount < MaxSignals
    /\ sigCount' = sigCount + 1
    /\ sigChan' = 1
    /\ flightTick' = IF sigCount = 0 /\ pcCap = "capture"
                     THEN Len(ticks) ELSE flightTick
    /\ UNCHANGED <<configVars, file, IsCapturing, StartTime, EndTime, Screenshots,
                   now, nextTick, tickC, done, pcMain, pcCap, capIdx, capTs,
                   metadata, metadataLog, review, ticks, lag, stops,
                   sampleVars, loadVars>>

----------------------------------------------------------------------------
(* The goroutine: StartCapture and captureScreenshot.                       *)

mainVars == <<sigChan, sigCount, pcMain, metadata, metadataLog,
              review, stops, flightTick, file>>

\* t.IsCapturing = true
StartCaptureFlag ==
    /\ Running
    /\ pcCap = "go"
    /\ IsCapturing' = TRUE
    /\ pcCap' = "stamp"
    /\ UNCHANGED <<configVars, StartTime, EndTime, Screenshots, now, nextTick,
                   tickC, done, capIdx, capTs, ticks, lag, mainVars,
                   sampleVars, loadVars>>

\* captureScreenshot is entered: the timestamp of the file names is taken
BeginCapture ==
    /\ capTs' = now
    /\ capIdx' = 1
    /\ ticks' = Append(ticks, <<>>)
    /\ pcCap' = "capture"

\* StartCaptureStamp without the initial capture: the loop waits for the
\* first tick of the ticker
StartCaptureStamp_NoInitialCapture ==
    /\ Running
    /\ pcCap = "stamp"
    /\ StartTime' = now
    /\ nextTick' = now + CaptureInterval
    /\ pcCap' = "wait"
    /\ UNCHANGED <<configVars, IsCapturing, EndTime, Screenshots, now, tickC,
                   done, capIdx, capTs, ticks, lag, mainVars, sampleVars, loadVars>>

\* t.StartTime = time.Now(), the ticker is created, the initial capture starts
StartCaptureStamp ==
    /\ Running
    /\ pcCap = "stamp"
    /\ StartTime' = now
    /\ nextTick' = now + CaptureInterval
    /\ BeginCapture
    /\ UNCHANGED <<configVars, IsCapturing, EndTime, Screenshots, now, tickC,
                   done, lag, mainVars, sampleVars, loadVars>>

Outcomes == {"ok", "capture failed", "save failed"}

FileName(monitorIdx) ==
    IF Len(MonitorsToCapture) > 1
    THEN <<"screen_m", monitorIdx + 1, capTs>>
    ELSE <<"screen_", capTs>>

\* NewScreenshot measuring the relative time from the capture back to the
\* start
NewScreenshot_TimeToStart(monitorIdx) ==
    [path |-> FileName(monitorIdx),
     monitor |-> monitorIdx + 1,
     timestamp |-> now,
     relative_time |-> Sub(StartTime, now),
     resolution |-> Resolution(monitorIdx)]

NewScreenshot(monitorIdx) ==
    [path |-> FileName(monitorIdx),
     monitor |-> monitorIdx + 1,
     timestamp |-> now,
     relative_time |-> Since(StartTime),
     resolution |-> Resolution(monitorIdx)]

Logged(outcome) ==
    [ticks EXCEPT ![Len(ticks)] = Append(@, outcome)]

\* CaptureMonitor with a failed CaptureDisplay returning from
\* captureScreenshot instead of continuing with the next monitor
CaptureMonitor_FailureReturns(outcome) ==
    /\ Running
    /\ pcCap = "capture"
    /\ ticks' = Logged(outcome)
    /\ Screenshots' = IF outcome = "ok"
                      THEN Append(Screenshots,
                                  NewScreenshot(MonitorsToCapture[capIdx]))
                      ELSE Screenshots
    /\ IF outcome # "ok" \/ capIdx = Len(MonitorsToCapture)
       THEN pcCap' = "wait" /\ capIdx' = 0
       ELSE pcCap' = "capture" /\ capIdx' = capIdx + 1
    /\ UNCHANGED <<configVars, IsCapturing, StartTime, EndTime, now, nextTick,
                   tickC, done, capTs, lag, mainVars, sampleVars, loadVars>>

\* one iteration of captureScreenshot's loop over MonitorsToCapture:
\* CaptureDisplay fails and the monitor is skipped, os.Create or png.Encode
\* fails and captureScreenshot returns, or the record is appended
CaptureMonitor(outcome) ==
    /\ Running
    /\ pcCap = "capture"
    /\ ticks' = Logged(outcome)
    /\ Screenshots' = IF outcome = "ok"
                      THEN Append(Screenshots,
                                  NewScreenshot(MonitorsToCapture[capIdx]))
                      ELSE Screenshots
    /\ IF outcome = "save failed" \/ capIdx = Len(MonitorsToCapture)
       THEN pcCap' = "wait" /\ capIdx' = 0
       ELSE pcCap' = "capture" /\ capIdx' = capIdx + 1
    /\ UNCHANGED <<configVars, IsCapturing, StartTime, EndTime, now, nextTick,
                   tickC, done, capTs, lag, mainVars, sampleVars, loadVars>>

captureScreenshot == \E outcome \in Outcomes : CaptureMonitor(outcome)

\* ReceiveTick resolving the monitors again, as "primary", at every tick
ReceiveTick_Reresolves ==
    /\ Running
    /\ pcCap = "wait"
    /\ tickC = 1
    /\ tickC' = 0
    /\ MonitorsToCapture' = setupMonitors(Primary, numMonitors)
    /\ IF ~IsCapturing
       THEN /\ pcCap' = "returned"
            /\ nextTick' = NoTicker
            /\ done' = 1
            /\ UNCHANGED <<capIdx, capTs, ticks>>
       ELSE /\ BeginCapture
            /\ UNCHANGED <<nextTick, done>>
    /\ UNCHANGED <<MonitorsConfig, numMonitors, CaptureInterval, warnings,
                   IsCapturing, StartTime, EndTime, Screenshots,
                   now, lag, mainVars, sampleVars, loadVars>>

\* for range ticker.C: a tick is received; the loop ends when IsCapturing is
\* false (ticker.Stop() and done <- nil follow), else the next capture starts
ReceiveTick ==
    /\ Running
    /\ pcCap = "wait"
    /\ tickC = 1
    /\ tickC' = 0
    /\ IF ~IsCapturing
       THEN /\ pcCap' = "returned"
            /\ nextTick' = NoTicker
            /\ done' = 1
            /\ UNCHANGED <<capIdx, capTs, ticks>>
       ELSE /\ BeginCapture
            /\ UNCHANGED <<nextTick, done>>
    /\ UNCHANGED <<configVars, IsCapturing, StartTime, EndTime, Screenshots,
                   now, lag, mainVars, sampleVars, loadVars>>

----------------------------------------------------------------------------
(* The Run function of the start command, StopCapture and saveMetadata.     *)

capVars == <<nextTick, tickC, pcCap, capIdx, capTs, ticks, flightTick>>

\* case <-sigChan: tracker.IsCapturing = false
SelectSignal ==
    /\ pcMain = "select"
    /\ sigChan = 1
    /\ sigChan' = 0
    /\ IsCapturing' = FALSE
    /\ pcMain' = "stop"
    /\ UNCHANGED <<configVars, file, StartTime, EndTime, Screenshots, now, done,
                   sigCount, metadata, metadataLog, review, stops,
                   lag, capVars, sampleVars, loadVars>>

\* case err := <-done: StartCapture returns nil
SelectDone ==
    /\ pcMain = "select"
    /\ done = 1
    /\ done' = 0
    /\ pcMain' = "stop"
    /\ UNCHANGED <<configVars, file, IsCapturing, StartTime, EndTime, Screenshots,
                   now, sigChan, sigCount, metadata, metadataLog,
                   review, stops, lag, capVars, sampleVars, loadVars>>

\* StopCapture returning without its call of saveMetadata
StopCapture_NoSave ==
    /\ pcMain = "stop"
    /\ IsCapturing' = FALSE
    /\ EndTime' = now
    /\ stops' = Append(stops, now)
    /\ pcMain' = "review"
    /\ UNCHANGED <<configVars, file, StartTime, Screenshots, now, done, sigChan,
                   sigCount, metadata, metadataLog, review, lag,
                   capVars, sampleVars, loadVars>>

\* StopCapture up to its call of saveMetadata
StopCapture ==
    /\ pcMain = "stop"
    /\ IsCapturing' = FALSE
    /\ EndTime' = now
    /\ stops' = Append(stops, now)
    /\ pcMain' = "save"
    /\ UNCHANGED <<configVars, file, StartTime, Screenshots, now, done, sigChan,
                   sigCount, metadata, metadataLog, review, lag,
                   capVars, sampleVars, loadVars>>

\* the whole seconds and the remaining tenths of a Duration
WholeSeconds(d) ==
    IF d = MaxDuration \/ d = 0 - MaxDuration THEN d
    ELSE IF d < 0 THEN 0 - ((0 - d) \div TenthsPerSecond)
    ELSE d \div TenthsPerSecond

TenthsPart(d) ==
    IF d = MaxDuration \/ d = 0 - MaxDuration THEN 0
    ELSE IF d < 0 THEN 0 - ((0 - d) % TenthsPerSecond)
    ELSE d % TenthsPerSecond

\* saveMetadata builds the SessionMetadata up to ScreenshotCount
saveMetadataCount ==
    /\ pcMain = "save"
    /\ LET d == Elapsed(EndTime, EndFrac, StartTime, StartFrac)
       IN  metadata' = [start_time |-> FormatRFC3339(StartTime, StartFrac),
                        end_time |-> FormatRFC3339(EndTime, EndFrac),
                        duration_seconds |-> WholeSeconds(d),
                        duration_tenths |-> TenthsPart(d),
                        screenshot_count |-> Len(Screenshots),
                        screenshots |-> <<>>]
    /\ pcMain' = "write"
    /\ UNCHANGED <<configVars, file, IsCapturing, StartTime, EndTime, Screenshots,
                   now, done, sigChan, sigCount, metadataLog, review,
                   stops, lag, capVars, sampleVars, loadVars>>

SessionMetadata(head, shots) ==
    [start_time |-> head.start_time,
     end_time |-> head.end_time,
     duration_seconds |-> head.duration_seconds,
     duration_tenths |-> head.duration_tenths,
     screenshot_count |-> head.screenshot_count,
     screenshots |-> shots]

\* saveMetadata reads Screenshots and marshals; os.WriteFile opens
\* metadata.json with O_TRUNC, which empties it.  When the open fails the Run
\* function exits with status 1.
WriteFileOpen(ok) ==
    /\ pcMain = "write"
    /\ metadata' = SessionMetadata(metadata, Screenshots)
    /\ IF ok
       THEN /\ file' = [exists |-> TRUE, damaged |-> FALSE, data |-> <<>>]
            /\ pcMain' = "writing"
       ELSE /\ pcMain' = "exit1"
            /\ UNCHANGED file
    /\ UNCHANGED <<configVars, IsCapturing, StartTime, EndTime, Screenshots,
                   now, done, sigChan, sigCount, metadataLog, review,
                   stops, lag, capVars, sampleVars, loadVars>>

openMetadata == \E ok \in BOOLEAN : WriteFileOpen(ok)

\* os.WriteFile writes the marshalled metadata; when the write fails the
\* Run function exits with status 1
saveMetadataWrite(ok) ==
    /\ pcMain = "writing"
    /\ IF ok
       THEN /\ file' = [exists |-> TRUE, damaged |-> FALSE,
                        data |-> Marshal(metadata)]
            /\ metadataLog' = Append(metadataLog, metadata)
            /\ pcMain' = "review"
       ELSE /\ pcMain' = "exit1"
            /\ UNCHANGED <<file, metadataLog>>
    /\ UNCHANGED <<configVars, IsCapturing, StartTime, EndTime, Screenshots,
                   now, done, sigChan, sigCount, metadata, review,
                   stops, lag, capVars, sampleVars, loadVars>>

saveMetadata == \E ok \in BOOLEAN : saveMetadataWrite(ok)

\* ReviewEntries numbering the entries from 0
ReviewEntries_ZeroBased(sample) ==
    [i \in 1..Len(sample) |-> [ordinal |-> i - 1, shot |-> sample[i]]]

\* for i, shot := range selected: the entry "Screenshot i+1" of each sampled
\* record (position p of the sequence is index p - 1 of the slice)
ReviewEntries(sample) ==
    [p \in 1..Len(sample) |-> [ordinal |-> (p - 1) + 1, shot |-> sample[p]]]

\* the review file: who wrote it, the header and the sampled entries
ReviewFile(by, duration, shots, sample) ==
    [by |-> by,
     total |-> Len(shots),
     duration |-> FormatMinutes(duration),
     count |-> Len(sample),
     sampled |-> sample,
     entries |-> ReviewEntries(sample)]

\* GenerateReviewFile(5) (SummarizeWithClaude(5) in main.go): the header and
\* the sampled entries; then the Run function returns and the process ends
GenerateReviewFile ==
    /\ pcMain = "review"
    /\ \E nanIdx \in NaNIndexes :
          LET sample == sampleScreenshots(Screenshots, sampleCount, nanIdx)
          IN  /\ selected' = sample
              /\ review' = Append(review,
                                  ReviewFile("start",
                                             Elapsed(EndTime, EndFrac,
                                                     StartTime, StartFrac),
                                             Screenshots, sample.shots))
    /\ pcMain' = "returned"
    /\ UNCHANGED <<configVars, file, IsCapturing, StartTime, EndTime, Screenshots,
                   now, done, sigChan, sigCount, metadata, metadataLog,
                   stops, lag, capVars, sampleCount, loadVars>>

\* The select's done case is not a step of the start command: StartCapture
\* returns only after IsCapturing is cleared, which the Run function does
\* only once it has left the select.
Next ==
    \/ Advance
    \/ Interrupt
    \/ StartCaptureFlag
    \/ StartCaptureStamp
    \/ captureScreenshot
    \/ ReceiveTick
    \/ SelectSignal
    \/ StopCapture
    \/ saveMetadataCount
    \/ openMetadata
    \/ saveMetadata
    \/ GenerateReviewFile

Spec == Init /\ [][Next]_vars

----------------------------------------------------------------------------
(* A caller that keeps selecting: after StopCapture has returned it waits   *)
(* again, so that the end of StartCapture stops the session a second time.  *)

AwaitAgain ==
    /\ pcMain = "review"
    /\ Len(stops) < MaxStops
    /\ pcMain' = "select"
    /\ UNCHANGED <<configVars, file, IsCapturing, StartTime, EndTime, Screenshots,
                   now, done, sigChan, sigCount, metadata, metadataLog, review,
                   stops, lag, capVars, sampleVars, loadVars>>

NextStop ==
    \/ Advance
    \/ Interrupt
    \/ StartCaptureFlag
    \/ StartCaptureStamp
    \/ captureScreenshot
    \/ ReceiveTick
    \/ SelectSignal
    \/ SelectDone
    \/ StopCapture
    \/ saveMetadataCount
    \/ openMetadata
    \/ saveMetadata
    \/ AwaitAgain

InitStop ==
    /\ Init
    /\ MonitorsConfig = Primary

SpecStop == InitStop /\ [][NextStop]_vars

----------------------------------------------------------------------------
(* The start command under fair scheduling of the Run function only: the    *)
(* clock, the ticker and the goroutine may stall.  The sessions are those   *)
(* of one monitor.                                                          *)

Fairness ==
    /\ WF_vars(SelectSignal)
    /\ WF_vars(StopCapture)
    /\ WF_vars(saveMetadataCount)
    /\ WF_vars(openMetadata)
    /\ WF_vars(saveMetadata)
    /\ WF_vars(GenerateReviewFile)

InitFair ==
    /\ Init
    /\ Len(MonitorsToCapture) = 1

FairSpec == InitFair /\ [][Next]_vars /\ Fairness

----------------------------------------------------------------------------
(* sampleScreenshots on a session of n records and a sample count.          *)

SampleRecord(i) ==
    [path |-> <<"screen_", i>>,
     monitor |-> 1,
     timestamp |-> i,
     relative_time |-> i - 1,
     resolution |-> Resolution(0)]

InitSample ==
    /\ MonitorsConfig = Primary
    /\ numMonitors = 1
    /\ CaptureInterval = DefaultInterval
    /\ MonitorsToCapture = setupMonitors(Primary, 1)
    /\ warnings = setupMonitorsWarnings(Primary, 1)
    /\ IsCapturing = FALSE
    /\ StartTime = ProcessStart
    /\ EndTime = ProcessStart + MaxLen
    /\ \E n \in 0..MaxLen : Screenshots = [i \in 1..n |-> SampleRecord(i)]
    /\ sampleCount \in 1..MaxCount
    /\ selected = NoResult
    /\ now = ProcessStart + MaxLen
    /\ nextTick = NoTicker
    /\ tickC = 0
    /\ sigChan = 0
    /\ sigCount = 0
    /\ done = 0
    /\ pcMain = "returned"
    /\ pcCap = "returned"
    /\ capIdx = 0
    /\ capTs = ZeroTime
    /\ metadata = ZeroMetadata
    /\ metadataLog = <<>>
    /\ review = NoFile
    /\ ticks = <<>>
    /\ flightTick = 0
    /\ lag = 0
    /\ stops = <<>>
    /\ StartFrac = 0
    /\ EndFrac = 0
    /\ file = Missing
    /\ pcLoad = "idle"
    /\ loadData = Missing
    /\ loaded = NoTracker

\* selected := t.sampleScreenshots(sampleCount)
Sample(nanIdx) ==
    /\ selected = NoResult
    /\ selected' = sampleScreenshots(Screenshots, sampleCount, nanIdx)
    /\ UNCHANGED <<configVars, IsCapturing, StartTime, EndTime, Screenshots,
                   now, done, mainVars, capVars, lag, sampleCount, loadVars>>

NextSample == \E nanIdx \in NaNIndexes : Sample(nanIdx)

SpecSample == InitSample /\ [][NextSample]_vars

\* the original index of a sampled record
IndexOf(shot) == CHOOSE i \in 1..Len(Screenshots) : Screenshots[i] = shot

Sampled == selected.state = "ok"

----------------------------------------------------------------------------
(* setupMonitors on a monitor specification and a number of displays: the   *)
(* start command from NewTaskTracker, before setupMonitors has run, to the  *)
(* end of the goroutine's initial capture.                                  *)

\* the comma-separated parts a specification is made of
Parts ==
    { <<"1">>, <<"2">>, <<"3">>, <<" ", "2", " ">>, <<"5">>, <<"0">>,
      <<"a", "b", "c">>, <<>> }

PartLists == UNION { [1..k -> Parts] : k \in 1..MaxParts }

\* the parts joined with commas
RECURSIVE Join(_)
Join(parts) ==
    IF Len(parts) = 1 THEN parts[1]
    ELSE parts[1] \o <<",">> \o Join(Tail(parts))

Configs == {All, Primary} \cup { Join(parts) : parts \in PartLists }

InitResolve ==
    /\ MonitorsConfig \in Configs
    /\ numMonitors \in 1..MaxDisplays
    /\ CaptureInterval = DefaultInterval
    /\ MonitorsToCapture = <<>>
    /\ warnings = <<>>
    /\ IsCapturing = FALSE
    /\ StartTime = ZeroTime
    /\ EndTime = ZeroTime
    /\ Screenshots = <<>>
    /\ now = ProcessStart
    /\ nextTick = NoTicker
    /\ tickC = 0
    /\ sigChan = 0
    /\ sigCount = 0
    /\ done = 0
    /\ pcMain = "new"
    /\ pcCap = "none"
    /\ capIdx = 0
    /\ capTs = ZeroTime
    /\ metadata = ZeroMetadata
    /\ metadataLog = <<>>
    /\ review = NoFile
    /\ ticks = <<>>
    /\ flightTick = 0
    /\ lag = 0
    /\ stops = <<>>
    /\ sampleCount = ReviewSampleCount
    /\ selected = NoResult
    /\ StartFrac = 0
    /\ EndFrac = 0
    /\ file = Missing
    /\ pcLoad = "idle"
    /\ loadData = Missing
    /\ loaded = NoTracker

\* NewTaskTracker calls setupMonitors and returns the tracker; the Run
\* function starts the goroutine and waits at its select
SetupMonitors ==
    /\ pcMain = "new"
    /\ MonitorsToCapture' = setupMonitors(MonitorsConfig, numMonitors)
    /\ warnings' = setupMonitorsWarnings(MonitorsConfig, numMonitors)
    /\ pcMain' = "select"
    /\ pcCap' = "go"
    /\ UNCHANGED <<file, MonitorsConfig, numMonitors, CaptureInterval, IsCapturing,
                   StartTime, EndTime, Screenshots, now, nextTick, tickC,
                   sigChan, sigCount, done, capIdx, capTs, metadata,
                   metadataLog, review, ticks, flightTick, lag, stops,
                   sampleVars, loadVars>>

NextResolve ==
    \/ SetupMonitors
    \/ StartCaptureFlag
    \/ StartCaptureStamp
    \/ captureScreenshot

SpecResolve == InitResolve /\ [][NextResolve]_vars

----------------------------------------------------------------------------
(* The analyze command beside the end of a session: the start command has   *)
(* run StopCapture up to its call of saveMetadata, the goroutine waits for  *)
(* its next tick, and analyze is run on the session at any moment.  Once    *)
(* the start command has returned, metadata.json may be removed or changed  *)
(* by something else before analyze reads it.                               *)

\* the tenths of a second at which StartTime and EndTime were read
Fractions == {0, 5, 9}

\* a text that is no RFC3339 time
NotATime == <<"n", "o", "w">>

InitLoad ==
    /\ MonitorsConfig = Primary
    /\ numMonitors = 1
    /\ CaptureInterval = 1
    /\ MonitorsToCapture = setupMonitors(Primary, 1)
    /\ warnings = setupMonitorsWarnings(Primary, 1)
    /\ IsCapturing = FALSE
    /\ StartTime = ProcessStart
    /\ StartFrac \in Fractions
    /\ EndFrac \in Fractions
    /\ \E length \in 0..MaxSession :
          /\ EndTime = StartTime + length
          /\ \E n \in 0..(length + 1) :
                /\ Screenshots = [i \in 1..n |-> SampleRecord(i)]
                /\ ticks = [i \in 1..n |-> <<"ok">>]
                /\ capTs = IF n = 0 THEN ZeroTime ELSE StartTime + n - 1
    /\ Elapsed(EndTime, EndFrac, StartTime, StartFrac) >= 0
    /\ now = EndTime
    /\ nextTick = EndTime + CaptureInterval
    /\ tickC = 0
    /\ sigChan = 0
    /\ sigCount = 1
    /\ done = 0
    /\ pcMain = "save"
    /\ pcCap = "wait"
    /\ capIdx = 0
    /\ metadata = ZeroMetadata
    /\ metadataLog = <<>>
    /\ review = NoFile
    /\ flightTick = 0
    /\ lag = 0
    /\ stops = <<EndTime>>
    /\ sampleCount = ReviewSampleCount
    /\ selected = NoResult
    /\ file = Missing
    /\ pcLoad = "idle"
    /\ loadData = Missing
    /\ loaded = NoTracker

\* what metadata.json may become at the hands of something else: removed,
\* cut short, or its start_time replaced
Damaged(f) ==
    { [Missing EXCEPT !.damaged = TRUE],
      [f EXCEPT !.damaged = TRUE,
                !.data = SubSeq(f.data, 1, Len(f.data) - 1)],
      [f EXCEPT !.damaged = TRUE,
                !.data = [f.data EXCEPT ![3] = String(<<NotATime>>)]] }

Damage ==
    /\ pcMain = "returned"
    /\ pcLoad = "idle"
    /\ file.exists
    /\ ~file.damaged
    /\ \E f \in Damaged(file) : file' = f
    /\ UNCHANGED <<configVars, IsCapturing, StartTime, EndTime, Screenshots,
                   now, done, lag, sigChan, sigCount, pcMain, metadata,
                   metadataLog, review, stops, capVars, sampleVars, loadVars>>

\* data, err := os.ReadFile(metadataPath); a missing file exits with status 1
AnalyzeRead ==
    /\ pcLoad = "idle"
    /\ loadData' = file
    /\ pcLoad' = IF file.exists THEN "parse" ELSE "exit1"
    /\ UNCHANGED <<configVars, IsCapturing, StartTime, EndTime, Screenshots,
                   now, done, lag, mainVars, capVars, sampleVars, StartFrac,
                   EndFrac, loaded>>

\* json.Unmarshal, an error of which exits with status 1; the tracker is
\* reconstructed, the errors of time.Parse are dropped
AnalyzeParse ==
    /\ pcLoad = "parse"
    /\ LET md == Unmarshal(loadData.data)
           start == ParseRFC3339(md.start_time)
           end == ParseRFC3339(md.end_time)
       IN  IF md.ok
           THEN /\ loaded' = [StartTime |-> start.t, StartFrac |-> start.frac,
                              EndTime |-> end.t, EndFrac |-> end.frac,
                              Screenshots |-> md.screenshots]
                /\ pcLoad' = "review"
           ELSE /\ pcLoad' = "exit1"
                /\ UNCHANGED loaded
    /\ UNCHANGED <<configVars, IsCapturing, StartTime, EndTime, Screenshots,
                   now, done, lag, mainVars, capVars, sampleVars, StartFrac,
                   EndFrac, loadData>>

\* tracker.GenerateReviewFile(5) on the reconstructed tracker
AnalyzeReview ==
    /\ pcLoad = "review"
    /\ \E nanIdx \in NaNIndexes :
          LET sample == sampleScreenshots(loaded.Screenshots,
                                          ReviewSampleCount, nanIdx)
          IN  review' = Append(review,
                               ReviewFile("analyze",
                                          Elapsed(loaded.EndTime, loaded.EndFrac,
                                                  loaded.StartTime,
                                                  loaded.StartFrac),
                                          loaded.Screenshots, sample.shots))
    /\ pcLoad' = "returned"
    /\ UNCHANGED <<configVars, file, IsCapturing, StartTime, EndTime,
                   Screenshots, now, done, lag, sigChan, sigCount, pcMain,
                   metadata, metadataLog, stops, capVars, sampleVars,
                   StartFrac, EndFrac, loadData, loaded>>

NextLoad ==
    \/ saveMetadataCount
    \/ openMetadata
    \/ saveMetadata
    \/ GenerateReviewFile
    \/ Damage
    \/ AnalyzeRead
    \/ AnalyzeParse
    \/ AnalyzeReview

SpecLoad == InitLoad /\ [][NextLoad]_vars

----------------------------------------------------------------------------
(* Claims. *)

\* the Run function has run StopCapture up to its stamp of EndTime
Stopped == pcMain \in {"save", "write", "writing", "review", "returned", "exit1"}

\* tick j of the capture loop is over
TickDone(j) == j < Len(ticks) \/ pcCap # "capture"

\* the monitor numbers a tick recorded: those of its outcomes that are "ok"
RECURSIVE Recorded(_, _)
Recorded(outcomes, p) ==
    IF p > Len(outcomes) THEN <<>>
    ELSE (IF outcomes[p] = "ok" THEN <<MonitorsToCapture[p] + 1>> ELSE <<>>)
         \o Recorded(outcomes, p + 1)

RECURSIVE RecordedUpTo(_)
RecordedUpTo(j) ==
    IF j = 0 THEN <<>> ELSE RecordedUpTo(j - 1) \o Recorded(ticks[j], 1)

\* the positions in Screenshots of the records of tick j
RecordsOf(j) ==
    (Len(RecordedUpTo(j - 1)) + 1)..Len(RecordedUpTo(j))

ConfigIs(config, displays) ==
    MonitorsConfig = config /\ numMonitors = displays

\* C1: a second call of StopCapture leaves EndTime as the first call set it
\* and writes no metadata with another duration.
C1_StopIdempotent ==
    /\ \A i, j \in 1..Len(stops) : stops[i] = stops[j]
    /\ \A i, j \in 1..Len(metadataLog) :
          /\ metadataLog[i].end_time = metadataLog[j].end_time
          /\ metadataLog[i].duration_seconds = metadataLog[j].duration_seconds

\* C2: once the stop path has cleared IsCapturing it is never set again,
\* whichever of the interrupt and the goroutine's start-up comes first.
C2_StoppedIsTerminal ==
    [][(pcMain # "select" /\ ~IsCapturing) => ~IsCapturing']_vars

\* C3: an interrupt delivered while the session is capturing leads to the
\* stopped session with EndTime stamped and metadata.json written (or to the
\* exit on a failed write), with no further step of the clock or the ticker.
C3_InterruptStops ==
    (pcMain = "select" /\ sigChan = 1 /\ IsCapturing)
        ~> (pcMain = "exit1"
            \/ (~IsCapturing /\ EndTime # ZeroTime /\ metadataLog # <<>>))

C3_Witness ==
    /\ sigCount > 0
    /\ Len(Screenshots) > 0
    /\ ~IsCapturing
    /\ EndTime # ZeroTime
    /\ Len(metadataLog) = 1
    /\ metadataLog[1].end_time = EndTime
    /\ pcCap = "wait"
    /\ tickC = 0

\* C4: the records of the capture tick in flight when the interrupt arrives
\* are in the list written to metadata.json.
C4_InFlightPersisted ==
    (flightTick > 0 /\ pcMain \in {"review", "returned"})
        => \A i \in RecordsOf(flightTick) :
              /\ i <= Len(metadataLog[1].screenshots)
              /\ metadataLog[1].screenshots[i] = Screenshots[i]

\* C5: once StopCapture has run, Screenshots never changes.
C5_RecordsFrozen ==
    [][Stopped => Screenshots' = Screenshots]_vars

\* C6: with every step taken at once and no failing capture, a session on
\* "primary" interrupted d seconds after its start, d no multiple of the
\* interval, has ticked d/interval + 1 times, at 0, interval, 2*interval, ...,
\* each tick with one record of monitor 1; all are in metadata.json.
C6_TicksEveryInterval ==
    (/\ MonitorsConfig = Primary
     /\ lag = 0
     /\ metadataLog # <<>>
     /\ StartTime # ZeroTime
     /\ \A j \in 1..Len(ticks) : \A p \in 1..Len(ticks[j]) : ticks[j][p] = "ok"
     /\ Sub(EndTime, StartTime) % CaptureInterval # 0)
        => LET md == metadataLog[1]
               n == Sub(EndTime, StartTime) \div CaptureInterval + 1
           IN  /\ md.duration_seconds = Sub(EndTime, StartTime)
               /\ Len(ticks) = n
               /\ md.screenshot_count = n
               /\ Len(md.screenshots) = n
               /\ \A i \in 1..n :
                     /\ Len(ticks[i]) = 1
                     /\ md.screenshots[i].monitor = 1
                     /\ md.screenshots[i].relative_time
                            = (i - 1) * CaptureInterval

\* interval 30, "primary" on 2 displays, interrupted after 65 s: 3 records
C6_Witness ==
    /\ ConfigIs(Primary, 2)
    /\ CaptureInterval = 30
    /\ lag = 0
    /\ sigCount = 1
    /\ Sub(EndTime, StartTime) = 65
    /\ Len(metadataLog) = 1
    /\ Len(metadataLog[1].screenshots) = 3
    /\ ticks = <<<<"ok">>, <<"ok">>, <<"ok">>>>

\* C7: a failed CaptureDisplay skips that monitor only: the tick goes on to
\* the next configured monitor, the records are exactly those of the monitors
\* whose outcome is "ok", and the loop ends only after the stop path has
\* cleared IsCapturing.
C7_CaptureFailureSkipped ==
    /\ \A j \in 1..Len(ticks) : \A p \in 1..Len(ticks[j]) :
          (TickDone(j) /\ ticks[j][p] = "capture failed"
                       /\ p < Len(MonitorsToCapture))
              => Len(ticks[j]) > p
    /\ Len(Screenshots) = Len(RecordedUpTo(Len(ticks)))
    /\ \A i \in 1..Len(Screenshots) :
          Screenshots[i].monitor = RecordedUpTo(Len(ticks))[i]
    /\ pcCap = "returned" => pcMain # "select"

\* "1,2" on 2 displays, display 2 fails on the first tick: 1 record, for
\* monitor 1, and the next tick runs
C7_Witness ==
    /\ ConfigIs(<<"1", ",", "2">>, 2)
    /\ Len(ticks) = 2
    /\ ticks[1] = <<"ok", "capture failed">>
    /\ ticks[2] = <<"capture failed", "ok">>
    /\ pcCap = "wait"
    /\ Len(Screenshots) = 2
    /\ Screenshots[1].monitor = 1
    /\ Screenshots[2].monitor = 2

\* C8: a failure to create or encode one image file skips that capture
\* only: the remaining configured monitors of the tick are still tried.
C8_SaveFailureSkipped ==
    \A j \in 1..Len(ticks) : \A p \in 1..Len(ticks[j]) :
        (TickDone(j) /\ ticks[j][p] = "save failed"
                     /\ p < Len(MonitorsToCapture))
            => Len(ticks[j]) > p

\* C9: sample(records, k) with len(records) > k >= 2 includes the first and
\* the last record.
C9_FirstAndLastIncluded ==
    (Sampled /\ Len(Screenshots) > sampleCount /\ sampleCount >= 2)
        => /\ selected.shots[1] = Screenshots[1]
           /\ selected.shots[sampleCount] = Screenshots[Len(Screenshots)]

\* C10: for len(records) > k >= 2 the i-th selected record (i = 0..k-1) is
\* the one at index floor(i * (len-1)/(k-1)) of real arithmetic.
C10_RealArithmeticIndices ==
    (Sampled /\ Len(Screenshots) > sampleCount /\ sampleCount >= 2)
        => /\ Len(selected.shots) = sampleCount
           /\ \A i \in 0..(sampleCount - 1) :
                 IndexOf(selected.shots[i + 1]) - 1
                     = (i * (Len(Screenshots) - 1)) \div (sampleCount - 1)

\* C11: sample(records, k) with len(records) <= k returns all the records,
\* in their order and unchanged, the empty list included.
C11_AllReturnedWhenFew ==
    (selected # NoResult /\ Len(Screenshots) <= sampleCount)
        => selected = Returned(Screenshots)

\* 3 records sampled with count 5: the 3 records
C11_Witness ==
    /\ Len(Screenshots) = 3
    /\ sampleCount = 5
    /\ selected.state = "ok"
    /\ selected.shots = Screenshots

\* C12: sample(records, 1) with len(records) > 1 returns the first record
\* only and does not fault.
C12_FirstOnlyForCountOne ==
    (selected # NoResult /\ sampleCount = 1 /\ Len(Screenshots) > 1)
        => selected = Returned(<<Screenshots[1]>>)

\* setupMonitors has run
Resolved == pcMain # "new"

\* what a part of a specification denotes: the integer it is the decimal
\* numeral of, white space aside, if any
PartNumbers ==
    { [text |-> <<"1">>, int |-> TRUE, num |-> 1],
      [text |-> <<"2">>, int |-> TRUE, num |-> 2],
      [text |-> <<"3">>, int |-> TRUE, num |-> 3],
      [text |-> <<" ", "2", " ">>, int |-> TRUE, num |-> 2],
      [text |-> <<"5">>, int |-> TRUE, num |-> 5],
      [text |-> <<"0">>, int |-> TRUE, num |-> 0],
      [text |-> <<"a", "b", "c">>, int |-> FALSE, num |-> 0],
      [text |-> <<>>, int |-> FALSE, num |-> 0] }

PartNumber(part) == CHOOSE r \in PartNumbers : r.text = part

\* the 0-based indices of the parts that are an integer in 1..n, in order
RECURSIVE Denoted(_, _)
Denoted(parts, n) ==
    IF parts = <<>> THEN <<>>
    ELSE LET r == PartNumber(Head(parts))
         IN  (IF r.int /\ r.num \in 1..n THEN <<r.num - 1>> ELSE <<>>)
             \o Denoted(Tail(parts), n)

\* the specification is the comma-separated list of these parts
ListOf(parts) == Join(parts) = MonitorsConfig /\ Join(parts) \notin {All, Primary}

\* C13: a comma-separated specification resolves to the 0-based indices of
\* exactly its parts that are an integer in [1, numDisplays], in the order
\* given, repeated numbers kept and invalid parts dropped.
C13_ListResolved ==
    Resolved =>
        \A parts \in PartLists :
            (ListOf(parts) /\ Denoted(parts, numMonitors) # <<>>)
                => MonitorsToCapture = Denoted(parts, numMonitors)

\* resolve("1,1", 2) = [0,0]
C13_Witness ==
    /\ MonitorsConfig = <<"1", ",", "1">>
    /\ numMonitors = 2
    /\ Resolved
    /\ MonitorsToCapture = <<0, 0>>

\* C14: a specification none of whose parts is an integer in
\* [1, numDisplays] resolves to the primary display [0] with a warning, and
\* the start command goes on to its select: it is not a fatal error.
C14_FallbackToPrimary ==
    Resolved =>
        \A parts \in PartLists :
            (ListOf(parts) /\ Denoted(parts, numMonitors) = <<>>)
                => /\ MonitorsToCapture = <<0>>
                   /\ warnings = <<InvalidConfigWarning>>
                   /\ pcMain = "select"
                   /\ pcCap # "none"

\* "abc" on 3 displays: the session captures display 1
C14_Witness ==
    /\ MonitorsConfig = <<"a", "b", "c">>
    /\ numMonitors = 3
    /\ MonitorsToCapture = <<0>>
    /\ warnings = <<InvalidConfigWarning>>
    /\ IsCapturing
    /\ StartTime # ZeroTime
    /\ pcCap = "capture"
    /\ capIdx = 1

\* C15: "all" resolves to the numDisplays indices 0..numDisplays-1,
\* ascending, each once.
C15_AllDisplays ==
    (Resolved /\ MonitorsConfig = All)
        => /\ Len(MonitorsToCapture) = numMonitors
           /\ \A i \in 1..numMonitors : MonitorsToCapture[i] = i - 1

C15_Witness ==
    /\ Resolved
    /\ MonitorsConfig = All
    /\ numMonitors = 3
    /\ MonitorsToCapture = <<0, 1, 2>>

\* C16: "primary" resolves to the single index [0], whatever the number of
\* displays.
C16_PrimaryOnly ==
    (Resolved /\ MonitorsConfig = Primary) => MonitorsToCapture = <<0>>

C16_Witness ==
    /\ Resolved
    /\ MonitorsConfig = Primary
    /\ numMonitors = 3
    /\ MonitorsToCapture = <<0>>
    /\ warnings = <<>>

\* analyze has read metadata.json as the program left it
ReadAsSaved == pcLoad # "idle" /\ ~loadData.damaged

\* what analyze has read is a complete metadata.json written by saveMetadata
CompleteData ==
    \E i \in 1..Len(metadataLog) : loadData.data = Marshal(metadataLog[i])

\* C17: the records list loaded from the saved metadata is the session's:
\* same length and order, and the same path, monitor, timestamp, relative
\* time and resolution in every record.
C17_RecordsRoundTrip ==
    (ReadAsSaved /\ pcLoad \in {"review", "returned"})
        => /\ Len(loaded.Screenshots) = Len(Screenshots)
           /\ \A i \in 1..Len(Screenshots) :
                 /\ loaded.Screenshots[i].path = Screenshots[i].path
                 /\ loaded.Screenshots[i].monitor = Screenshots[i].monitor
                 /\ loaded.Screenshots[i].timestamp = Screenshots[i].timestamp
                 /\ loaded.Screenshots[i].relative_time
                        = Screenshots[i].relative_time
                 /\ loaded.Screenshots[i].resolution
                        = Screenshots[i].resolution

\* a session of 3 records, saved and loaded back
C17_Witness ==
    /\ ReadAsSaved
    /\ pcLoad = "returned"
    /\ pcMain = "returned"
    /\ Len(Screenshots) = 3
    /\ loaded.Screenshots = Screenshots
    /\ StartFrac = 5

\* C18: a reader of metadata.json beside a save sees the complete old or
\* the complete new contents, never an empty or partial file.
C18_AtomicOverwrite ==
    (ReadAsSaved /\ loadData.exists) => CompleteData

\* C19: loading a missing or malformed metadata.json ends the invocation
\* with an error: analyze does not go on to the review and writes no
\* review file.
C19_LoadErrorAborts ==
    (pcLoad # "idle" /\ (~loadData.exists \/ ~CompleteData))
        => /\ pcLoad \in {"parse", "exit1"}
           /\ \A i \in 1..Len(review) : review[i].by # "analyze"

\* C20: the review analyze writes from the saved metadata has the duration,
\* the total and sampled counts and the sampled entries of the review the
\* start command wrote at the end of the session.
C20_ReviewRegenerated ==
    ReadAsSaved =>
        \A i, j \in 1..Len(review) :
            (review[i].by = "start" /\ review[j].by = "analyze")
                => /\ review[j].duration = review[i].duration
                   /\ review[j].total = review[i].total
                   /\ review[j].count = review[i].count
                   /\ review[j].sampled = review[i].sampled

\* the relative times of the records are none below zero and never decrease
TimeOrdered(shots) ==
    /\ \A i \in 1..Len(shots) : shots[i].relative_time >= 0
    /\ \A i, j \in 1..Len(shots) :
          i < j => shots[i].relative_time <= shots[j].relative_time

\* C21: the records list is append-only and time-ordered: no step changes,
\* removes or reorders a record it holds, every relative time is >= 0, and
\* the relative times do not decrease in the order of the list.
C21_AppendOnlyOrdered ==
    /\ [](TimeOrdered(Screenshots))
    /\ [][/\ Len(Screenshots') >= Len(Screenshots)
          /\ SubSeq(Screenshots', 1, Len(Screenshots)) = Screenshots]_vars

\* "1,2" on 2 displays: two ticks, the second record taken a clock step
\* after the first, the third tick's records 30 s after the start
C21_Witness ==
    /\ ConfigIs(<<"1", ",", "2">>, 2)
    /\ Len(Screenshots) = 4
    /\ Screenshots[1].relative_time = 0
    /\ Screenshots[2].relative_time > 0
    /\ Screenshots[3].relative_time = CaptureInterval
    /\ Screenshots[4].relative_time = CaptureInterval
    /\ pcMain = "returned"


\* C22: within one session no two capture records refer to the same path
\* (a capture that reuses a path overwrites the file of the earlier one),
\* whatever the resolved monitor list, a repeated monitor number included.
C22_NoCollision ==
    \A i, j \in 1..Len(Screenshots) :
        i # j => Screenshots[i].path # Screenshots[j].path


\* C23: the resolved monitor list is the one computed when the session was
\* created: no step of the start command (start, capture ticks, stop, save,
\* review generation) changes it.
C23_MonitorsFixed ==
    [][MonitorsToCapture' = MonitorsToCapture]_vars

\* "1,2" on 2 displays, three ticks, stopped, saved and reviewed: the list
\* is still [0, 1]
C23_Witness ==
    /\ ConfigIs(<<"1", ",", "2">>, 2)
    /\ Len(ticks) = 3
    /\ metadataLog # <<>>
    /\ review # NoFile
    /\ pcMain = "returned"
    /\ MonitorsToCapture = <<0, 1>>


\* the records of the tracker that rendered a review
RenderedFrom(r) ==
    IF r.by = "start" THEN Screenshots ELSE loaded.Screenshots

Min(a, b) == IF a < b THEN a ELSE b

\* C24: a rendered review reports in its header the number of records of
\* the session and the number sampled, m = min(len(records), 5), and its body
\* has one entry per sampled record, numbered 1..m in the order of the sample.
C24_ReviewCounts ==
    \A k \in 1..Len(review) :
        LET r == review[k]
            shots == RenderedFrom(r)
            m == Min(Len(shots), ReviewSampleCount)
        IN  /\ r.total = Len(shots)
            /\ r.count = m
            /\ Len(r.sampled) = m
            /\ Len(r.entries) = m
            /\ \A i \in 1..m :
                  /\ r.entries[i].ordinal = i
                  /\ r.entries[i].shot = r.sampled[i]
                  /\ \E p \in 1..Len(shots) : shots[p] = r.sampled[i]

\* a session of 7 records: the review of the start command shows 7 and 5,
\* and entries 1..5
C24_Witness ==
    /\ Len(Screenshots) = 7
    /\ Len(review) >= 1
    /\ review[1].by = "start"
    /\ review[1].total = 7
    /\ review[1].count = ReviewSampleCount
    /\ Len(review[1].entries) = ReviewSampleCount
    /\ review[1].entries[ReviewSampleCount].ordinal = ReviewSampleCount
    /\ review[1].entries[1].shot = Screenshots[1]


\* C25: in every metadata.json the stop path writes, screenshot_count is the
\* length of the screenshots list written with it.
C25_CountMatchesList ==
    \A i \in 1..Len(metadataLog) :
        metadataLog[i].screenshot_count = Len(metadataLog[i].screenshots)

\* C26: in every metadata.json written, end_time is not earlier than
\* start_time, duration_seconds is >= 0, and no record's relative_time
\* exceeds duration_seconds.
C26_DurationBoundsRecords ==
    \A i \in 1..Len(metadataLog) :
        LET md == metadataLog[i]
        IN  /\ md.end_time >= md.start_time
            /\ md.duration_seconds >= 0
            /\ \A k \in 1..Len(md.screenshots) :
                  md.screenshots[k].relative_time <= md.duration_seconds

\* C28: the review of the start command is generated from the records the
\* stop path persisted: its total is screenshot_count of metadata.json and
\* each of its sampled records is in the list of metadata.json.
C28_ReviewOfPersisted ==
    (review # NoFile /\ metadataLog # <<>>)
        => LET md == metadataLog[Len(metadataLog)]
               r == review[Len(review)]
           IN  /\ r.total = md.screenshot_count
               /\ \A k \in 1..Len(r.sampled) :
                     \E p \in 1..Len(md.screenshots) :
                         md.screenshots[p] = r.sampled[k]


\* C27: once the interrupt path has cleared IsCapturing (the Run function
\* has left its select), the goroutine starts no new capture tick, whichever
\* of the interrupt and the goroutine's start-up comes first.
C27_NoCaptureAfterClear ==
    [][pcMain # "select" => Len(ticks') = Len(ticks)]_vars


\* C29: sample(records, k) with len(records) > k >= 2 returns exactly k
\* records, each a record of the list, their original indices strictly
\* increasing: no record is selected twice.
C29_DistinctIncreasing ==
    (selected # NoResult /\ Len(Screenshots) > sampleCount /\ sampleCount >= 2)
        => /\ Sampled
           /\ Len(selected.shots) = sampleCount
           /\ \A i \in 1..sampleCount :
                 \E p \in 1..Len(Screenshots) :
                     Screenshots[p] = selected.shots[i]
           /\ \A i, j \in 1..sampleCount :
                 i < j => IndexOf(selected.shots[i]) < IndexOf(selected.shots[j])

\* 16 records sampled with count 12: 12 records, the last one at index 14
C29_Witness ==
    /\ Len(Screenshots) = 16
    /\ sampleCount = 12
    /\ Sampled
    /\ Len(selected.shots) = 12
    /\ selected.shots[1] = Screenshots[1]
    /\ selected.shots[12] = Screenshots[15]


\* C30: for every monitor specification and every number of displays >= 1
\* the resolved list is not empty and each of its indices is in
\* [0, numDisplays-1]; every capture record's monitor number is in
\* [1, numDisplays] and is a resolved index plus one.
C30_MonitorsInRange ==
    Resolved =>
        /\ MonitorsToCapture # <<>>
        /\ \A i \in 1..Len(MonitorsToCapture) :
              MonitorsToCapture[i] \in 0..(numMonitors - 1)
        /\ \A k \in 1..Len(Screenshots) :
              /\ Screenshots[k].monitor \in 1..numMonitors
              /\ \E i \in 1..Len(MonitorsToCapture) :
                    Screenshots[k].monitor = MonitorsToCapture[i] + 1

\* "5,3" on 3 displays: display 5 does not exist, the initial capture
\* records monitor 3
C30_Witness ==
    /\ MonitorsConfig = <<"5", ",", "3">>
    /\ numMonitors = 3
    /\ MonitorsToCapture = <<2>>
    /\ Len(Screenshots) = 1
    /\ Screenshots[1].monitor = 3
    /\ pcCap = "wait"

====
